---- MODULE Spec2Model ----
(***************************************************************************)
(* The two scripts of the repository, exec1_update_queue.py (the Updater)  *)
(* and exec2_read_queue.py (the Reader), run one after the other against   *)
(* the table `queues`.  A program position is named after the source line  *)
(* it stands at ("u54" is line 54 of the Updater, "r53" line 53 of the     *)
(* Reader).  Every call into the database driver and every print may       *)
(* raise: a driver call raises psycopg2.Error ("db"), a print raises some  *)
(* other Exception ("other", e.g. BrokenPipeError or UnicodeEncodeError).  *)
(***************************************************************************)
EXTENDS Integers, FiniteSets, Sequences, TLC

\* Number of script runs explored.
MaxRuns == 3
\* Latest timestamp a row carries before the first run (server clock at Init).
MaxInitTime == 1

\* The id both scripts bind into their statement.
QueueId == 24
Ids == {QueueId, QueueId + 1}
Statuses == {"ACTIVE", "PAUSED", "paused"}
Times == 0..MaxInitTime

\* A row of table queues.
QueueRecord(i, s, c, u) ==
    [id |-> i, clinic_id |-> 7, queue_status |-> s, created_at |-> c, updated_at |-> u]

Rows ==
    { QueueRecord(i, s, c, u) : i \in Ids, s \in Statuses, c \in {0}, u \in Times }

\* Tables the scripts can meet: id is the primary key; the second row is one
\* fixed bystander row or absent.
Tables ==
    { t \in SUBSET Rows :
        /\ \A a, b \in t : a.id = b.id => a = b
        /\ \A a \in t : a.id # QueueId => (a.queue_status = "ACTIVE" /\ a.updated_at = 0) }

VARIABLES
    db,        \* committed contents of table queues
    now,       \* server clock
    runs,      \* runs started so far
    script,    \* "none", "updater" or "reader": the script of the current run
    pc,        \* position in the current run
    conn,      \* local conn: "None", "open", "closed"
    cursor,    \* local cursor: "None", "open", "closed"
    txn,       \* the connection's transaction: "none", "open", "committed", "rolledback", "aborted"
    work,      \* table contents as the open transaction sees them
    rows,      \* result set held by the cursor after execute
    result,    \* local result: {} is None, {r} is a fetched row
    executed,  \* cursor.execute completed in this run
    fetched,   \* cursor.fetchone completed in this run
    raised,    \* kinds of exception raised in this run
    ret,       \* value of the return statement reached: "None", "True", "False"
    escaped,   \* an exception is propagating out of the function
    exitCode,  \* process exit code, -1 while running
    msg,       \* the outcome banner printed
    nConn,     \* connections acquired in this run
    nCursor,   \* cursors acquired in this run
    nStmt,     \* statements sent in this run
    pre,       \* committed table when the current run started
    last,      \* summary of the run before the current one
    everOk     \* some earlier or current Updater run has returned True

vars == << db, now, runs, script, pc, conn, cursor, txn, work, rows, result,
           executed, fetched, raised, ret, escaped, exitCode, msg,
           nConn, nCursor, nStmt, pre, last, everOk >>

\* locals of a run and the observation variables
locals == << conn, cursor, txn, work, rows, result, executed, fetched >>
outs == << ret, escaped, exitCode, msg >>
counts == << nConn, nCursor, nStmt >>
hist == << runs, script, pre, last, everOk >>

Row24(t) == { r \in t : r.id = QueueId }

NoRun == [script |-> "none", ok |-> FALSE, pre |-> {}, post |-> {}]

Init ==
    /\ db \in Tables
    /\ now = MaxInitTime
    /\ runs = 0
    /\ script = "none"
    /\ pc = "idle"
    /\ conn = "None" /\ cursor = "None"
    /\ txn = "none" /\ work = {} /\ rows = {} /\ result = {}
    /\ executed = FALSE /\ fetched = FALSE
    /\ raised = {}
    /\ ret = "None" /\ escaped = FALSE /\ exitCode = -1 /\ msg = "none"
    /\ nConn = 0 /\ nCursor = 0 /\ nStmt = 0
    /\ pre = db
    /\ last = NoRun
    /\ everOk = FALSE

\* The function returned v to its caller (no exception replaced the return).
Returned(v) == pc = "done" /\ ~escaped /\ ret = v

\* Summary of the run that has just ended.
Summary ==
    IF pc = "done"
    THEN [script |-> script, ok |-> (~escaped /\ ret = "True"),
          pre |-> Row24(pre), post |-> Row24(db)]
    ELSE NoRun

\* A new process starts: fresh locals (conn = None, cursor = None).
Start(s, first) ==
    /\ pc \in {"idle", "done"}
    /\ runs < MaxRuns
    /\ runs' = runs + 1
    /\ script' = s
    /\ pc' = first
    /\ conn' = "None" /\ cursor' = "None"
    /\ txn' = "none" /\ work' = {} /\ rows' = {} /\ result' = {}
    /\ executed' = FALSE /\ fetched' = FALSE
    /\ raised' = {}
    /\ ret' = "None" /\ escaped' = FALSE /\ exitCode' = -1 /\ msg' = "none"
    /\ nConn' = 0 /\ nCursor' = 0 /\ nStmt' = 0
    /\ pre' = db
    /\ last' = Summary
    /\ UNCHANGED << db, now, everOk >>

\* An exception of kind k raised in the try body goes to its except clause.
Raise(k, handler) ==
    /\ raised' = raised \cup {k}
    /\ pc' = handler

\* An exception raised inside an except clause or the finally clause leaves
\* the function; `next` is where control goes (the finally clause, or out).
Escape(k, next) ==
    /\ raised' = raised \cup {k}
    /\ escaped' = TRUE
    /\ pc' = next

\* print(...) at position p of the try body: goes on to q, or raises.
PrintStep(p, q, generic) ==
    /\ pc = p
    /\ \/ pc' = q /\ UNCHANGED raised
       \/ Raise("other", generic)
    /\ UNCHANGED << db, now, locals, outs, counts, hist >>

\* psycopg2.connect(...)
Connect(p, q, dberr) ==
    /\ pc = p
    /\ \/ /\ conn' = "open"
          /\ nConn' = nConn + 1
          /\ pc' = q
          /\ UNCHANGED raised
       \/ /\ Raise("db", dberr)
          /\ UNCHANGED << conn, nConn >>
    /\ UNCHANGED << db, now, cursor, txn, work, rows, result, executed, fetched,
                    outs, nCursor, nStmt, hist >>

\* cursor = conn.cursor()
OpenCursor(p, q, dberr) ==
    /\ pc = p
    /\ \/ /\ cursor' = "open"
          /\ nCursor' = nCursor + 1
          /\ pc' = q
          /\ UNCHANGED raised
       \/ /\ Raise("db", dberr)
          /\ UNCHANGED << cursor, nCursor >>
    /\ UNCHANGED << db, now, conn, txn, work, rows, result, executed, fetched,
                    outs, nConn, nStmt, hist >>

\* result = cursor.fetchone(): the first row of the result set, or None.
FetchOne(p, q, dberr) ==
    /\ pc = p
    /\ \/ /\ result' = rows
          /\ fetched' = TRUE
          /\ pc' = q
          /\ UNCHANGED raised
       \/ /\ Raise("db", dberr)
          /\ UNCHANGED << result, fetched >>
    /\ UNCHANGED << db, now, conn, cursor, txn, work, rows, executed,
                    outs, counts, hist >>

\* except clause, first line: print the error.  A failing print leaves the
\* function through the finally clause.
ExceptPrint(p, q, fin, m) ==
    /\ pc = p
    /\ \/ /\ msg' = m
          /\ pc' = q
          /\ UNCHANGED << raised, escaped >>
       \/ /\ Escape("other", fin)
          /\ UNCHANGED msg
    /\ UNCHANGED << db, now, locals, ret, exitCode, counts, hist >>

\* finally: if cursor: cursor.close().  A failing close leaves the function at
\* once, so the lines after it are skipped.
FinallyCursor(p, q, out) ==
    /\ pc = p
    /\ \/ /\ cursor = "None"
          /\ pc' = q
          /\ UNCHANGED << cursor, raised, escaped >>
       \/ /\ cursor # "None"
          /\ cursor' = "closed"
          /\ pc' = q
          /\ UNCHANGED << raised, escaped >>
       \/ /\ cursor # "None"
          /\ Escape("db", out)
          /\ UNCHANGED cursor
    /\ UNCHANGED << db, now, conn, txn, work, rows, result, executed, fetched,
                    ret, exitCode, msg, counts, hist >>

\* finally: if conn: conn.close(); print("Connection closed").  Closing a
\* connection discards a transaction that is still open.
FinallyConn(p, out) ==
    /\ pc = p
    /\ \/ /\ conn = "None"
          /\ pc' = out
          /\ UNCHANGED << conn, txn, raised, escaped >>
       \/ /\ conn # "None"
          /\ conn' = "closed"
          /\ txn' = IF txn = "open" THEN "aborted" ELSE txn
          /\ \/ pc' = out /\ UNCHANGED << raised, escaped >>
             \/ Escape("other", out)
    /\ UNCHANGED << db, now, cursor, work, rows, result, executed, fetched,
                    ret, exitCode, msg, counts, hist >>

\* __main__: success = f(); exit(0 if success else 1).  An exception that left
\* the function ends the process with the interpreter's exit code 1.
Main(p) ==
    /\ pc = p
    /\ exitCode' = IF ~escaped /\ ret = "True" THEN 0 ELSE 1
    /\ pc' = "done"
    /\ everOk' = (everOk \/ (script = "updater" /\ ~escaped /\ ret = "True"))
    /\ UNCHANGED << db, now, locals, raised, ret, escaped, msg, counts,
                    runs, script, pre, last >>

----------------------------------------------------------------------------
(* exec1_update_queue.py *)

\* Variants of the UPDATE statement, each one slip away from the source's.
\* SET queue_status = s only: updated_at is not refreshed.
UpdateQueuesKeepTime(t, s, i, clock) ==
    { IF r.id = i THEN [r EXCEPT !.queue_status = s] ELSE r : r \in t }

\* SET ... created_at = NOW() as well.
UpdateQueuesTouchCreated(t, s, i, clock) ==
    { IF r.id = i
        THEN [r EXCEPT !.queue_status = s, !.updated_at = clock, !.created_at = clock]
        ELSE r : r \in t }

\* No WHERE clause: every row is updated.
UpdateQueuesAllRows(t, s, i, clock) ==
    { [r EXCEPT !.queue_status = s, !.updated_at = clock] : r \in t }

\* UPDATE queues SET queue_status = s, updated_at = NOW() WHERE id = i
UpdateQueues(t, s, i, clock) ==
    { IF r.id = i
        THEN [r EXCEPT !.queue_status = s, !.updated_at = clock]
        ELSE r : r \in t }

\* RETURNING id, clinic_id, queue_status, updated_at
Returning(t, i) ==
    { [id |-> r.id, clinic_id |-> r.clinic_id, queue_status |-> r.queue_status,
       updated_at |-> r.updated_at] : r \in { x \in t : x.id = i } }

StartUpdater == Start("updater", "u23")

UBanner == PrintStep("u23", "u30", "u80")

UConnect == Connect("u30", "u38", "u74")

UPrintConnected == PrintStep("u38", "u40", "u80")

UCursor == OpenCursor("u40", "u43", "u74")

UPrintExecuting == PrintStep("u43", "u54", "u80")

\* cursor.execute(update_query, ('PAUSED', 24)): the statement runs inside a
\* transaction the driver opens; NOW() is that transaction's start time, later
\* than every timestamp committed before.
UExecute ==
    /\ pc = "u54"
    /\ nStmt' = nStmt + 1
    /\ txn' = "open"
    /\ \/ /\ now' = now + 1
          /\ work' = UpdateQueues(db, "PAUSED", QueueId, now')
          /\ rows' = Returning(work', QueueId)
          /\ executed' = TRUE
          /\ pc' = "u55"
          /\ UNCHANGED raised
       \/ /\ work' = db
          /\ Raise("db", "u74")
          /\ UNCHANGED << now, rows, executed >>
    /\ UNCHANGED << db, conn, cursor, result, fetched, outs, nConn, nCursor, hist >>

UFetch == FetchOne("u55", "u56", "u74")

\* Variants of the commit step.
\* The commit is left out: the run goes on, the transaction stays open.
UCommitNoPersist ==
    /\ pc = "u56"
    /\ pc' = "u58"
    /\ UNCHANGED << db, now, locals, raised, outs, counts, hist >>

\* Commit only when a row came back, roll back otherwise.
UCommitIfResult ==
    /\ pc = "u56"
    /\ \/ /\ result # {}
          /\ db' = work
          /\ txn' = "committed"
          /\ pc' = "u58"
          /\ UNCHANGED raised
       \/ /\ result = {}
          /\ txn' = "rolledback"
          /\ pc' = "u58"
          /\ UNCHANGED << db, raised >>
       \/ /\ Raise("db", "u74")
          /\ \/ UNCHANGED << db, txn >>
             \/ db' = work /\ txn' = "committed"
    /\ UNCHANGED << now, conn, cursor, work, rows, result, executed, fetched,
                    outs, counts, hist >>

\* conn.commit().  A commit that raises may or may not have reached the server.
UCommit ==
    /\ pc = "u56"
    /\ \/ /\ db' = work
          /\ txn' = "committed"
          /\ pc' = "u58"
          /\ UNCHANGED raised
       \/ /\ Raise("db", "u74")
          /\ \/ UNCHANGED << db, txn >>
             \/ db' = work /\ txn' = "committed"
    /\ UNCHANGED << now, conn, cursor, work, rows, result, executed, fetched,
                    outs, counts, hist >>

\* if result: print the row; return True
UReportSuccess ==
    /\ pc = "u58"
    /\ result # {}
    /\ \/ /\ msg' = "updated"
          /\ ret' = "True"
          /\ pc' = "u86"
          /\ UNCHANGED raised
       \/ /\ Raise("other", "u80")
          /\ UNCHANGED << msg, ret >>
    /\ UNCHANGED << db, now, locals, escaped, exitCode, counts, hist >>

\* else: print("UPDATE FAILED - No rows returned"); return False
UReportNoRows ==
    /\ pc = "u58"
    /\ result = {}
    /\ \/ /\ msg' = "norows"
          /\ ret' = "False"
          /\ pc' = "u86"
          /\ UNCHANGED raised
       \/ /\ Raise("other", "u80")
          /\ UNCHANGED << msg, ret >>
    /\ UNCHANGED << db, now, locals, escaped, exitCode, counts, hist >>

\* if conn: conn.rollback(); return False.  A rollback with no transaction
\* open does nothing; a rollback that raises leaves the function.
Rollback(p, fin) ==
    /\ pc = p
    /\ \/ /\ conn = "None"
          /\ ret' = "False"
          /\ pc' = fin
          /\ UNCHANGED << txn, raised, escaped >>
       \/ /\ conn # "None"
          /\ txn' = IF txn = "open" THEN "rolledback" ELSE txn
          /\ ret' = "False"
          /\ pc' = fin
          /\ UNCHANGED << raised, escaped >>
       \/ /\ conn # "None"
          /\ Escape("db", fin)
          /\ UNCHANGED << txn, ret >>
    /\ UNCHANGED << db, now, conn, cursor, work, rows, result, executed, fetched,
                    exitCode, msg, counts, hist >>

UExceptDb == ExceptPrint("u74", "u75", "u86", "dberror")

URollbackDb == Rollback("u75", "u86")

UExceptGeneric == ExceptPrint("u80", "u81", "u86", "error")

URollbackGeneric == Rollback("u81", "u86")

UFinallyCursor == FinallyCursor("u86", "u88", "u93")

UFinallyConn == FinallyConn("u88", "u93")

UMain == Main("u93")

Updater ==
    \/ StartUpdater
    \/ UBanner
    \/ UConnect
    \/ UPrintConnected
    \/ UCursor
    \/ UPrintExecuting
    \/ UExecute
    \/ UFetch
    \/ UCommit
    \/ UReportSuccess
    \/ UReportNoRows
    \/ UExceptDb
    \/ URollbackDb
    \/ UExceptGeneric
    \/ URollbackGeneric
    \/ UFinallyCursor
    \/ UFinallyConn
    \/ UMain

----------------------------------------------------------------------------
(* exec2_read_queue.py *)

\* SELECT id, clinic_id, queue_status, created_at, updated_at FROM queues WHERE id = i
SelectQueues(t, i) == { r \in t : r.id = i }

\* A comparison that ignores case.
VerifyIgnoreCase(status) == status \in {"PAUSED", "paused"}

\* queue_status == 'PAUSED'
Verify(status) == status = "PAUSED"

StartReader == Start("reader", "r23")

RBanner == PrintStep("r23", "r30", "r85")

RConnect == Connect("r30", "r38", "r81")

RPrintConnected == PrintStep("r38", "r40", "r85")

RCursor == OpenCursor("r40", "r43", "r81")

RPrintExecuting == PrintStep("r43", "r53", "r85")

\* cursor.execute(select_query, (24,))
RExecute ==
    /\ pc = "r53"
    /\ nStmt' = nStmt + 1
    /\ txn' = "open"
    /\ work' = db
    /\ \/ /\ rows' = SelectQueues(work', QueueId)
          /\ executed' = TRUE
          /\ pc' = "r54"
          /\ UNCHANGED raised
       \/ /\ Raise("db", "r81")
          /\ UNCHANGED << rows, executed >>
    /\ UNCHANGED << db, now, conn, cursor, result, fetched, outs, nConn, nCursor, hist >>

RFetch == FetchOne("r54", "r56", "r81")

\* if result: print the record; queue_status == 'PAUSED': return True
RReportVerified ==
    /\ pc = "r56"
    /\ \E r \in result : Verify(r.queue_status)
    /\ \/ /\ msg' = "verified"
          /\ ret' = "True"
          /\ pc' = "r89"
          /\ UNCHANGED raised
       \/ /\ Raise("other", "r85")
          /\ UNCHANGED << msg, ret >>
    /\ UNCHANGED << db, now, locals, escaped, exitCode, counts, hist >>

\* if result: print the record; else branch of the comparison: return False
RReportMismatch ==
    /\ pc = "r56"
    /\ \E r \in result : ~Verify(r.queue_status)
    /\ \/ /\ msg' = "mismatch"
          /\ ret' = "False"
          /\ pc' = "r89"
          /\ UNCHANGED raised
       \/ /\ Raise("other", "r85")
          /\ UNCHANGED << msg, ret >>
    /\ UNCHANGED << db, now, locals, escaped, exitCode, counts, hist >>

\* else: print("Queue ID 24 not found"); return False
RReportNotFound ==
    /\ pc = "r56"
    /\ result = {}
    /\ \/ /\ msg' = "notfound"
          /\ ret' = "False"
          /\ pc' = "r89"
          /\ UNCHANGED raised
       \/ /\ Raise("other", "r85")
          /\ UNCHANGED << msg, ret >>
    /\ UNCHANGED << db, now, locals, escaped, exitCode, counts, hist >>

\* return False of an except clause of the Reader
ReturnFalse(p, fin) ==
    /\ pc = p
    /\ ret' = "False"
    /\ pc' = fin
    /\ UNCHANGED << db, now, locals, raised, escaped, exitCode, msg, counts, hist >>

RExceptDb == ExceptPrint("r81", "r82", "r89", "dberror")

RReturnDb == ReturnFalse("r82", "r89")

RExceptGeneric == ExceptPrint("r85", "r86", "r89", "error")

RReturnGeneric == ReturnFalse("r86", "r89")

RFinallyCursor == FinallyCursor("r89", "r91", "r96")

RFinallyConn == FinallyConn("r91", "r96")

RMain == Main("r96")

Reader ==
    \/ StartReader
    \/ RBanner
    \/ RConnect
    \/ RPrintConnected
    \/ RCursor
    \/ RPrintExecuting
    \/ RExecute
    \/ RFetch
    \/ RReportVerified
    \/ RReportMismatch
    \/ RReportNotFound
    \/ RExceptDb
    \/ RReturnDb
    \/ RExceptGeneric
    \/ RReturnGeneric
    \/ RFinallyCursor
    \/ RFinallyConn
    \/ RMain

Next == Updater \/ Reader

Spec == Init /\ [][Next]_vars

TypeOK ==
    /\ \A a, b \in db : a.id = b.id => a = b
    /\ script \in {"none", "updater", "reader"}
    /\ conn \in {"None", "open", "closed"}
    /\ cursor \in {"None", "open", "closed"}
    /\ txn \in {"none", "open", "committed", "rolledback", "aborted"}
    /\ ret \in {"None", "True", "False"}
    /\ raised \subseteq {"db", "other"}
    /\ exitCode \in {-1, 0, 1}
----------------------------------------------------------------------------
(* Properties *)

\* A run of script s has ended (the process has exited).
Ended(s) == script = s /\ pc = "done"

Status24(t) == { r.queue_status : r \in Row24(t) }
Updated24(t) == { r.updated_at : r \in Row24(t) }

\* C1: an Updater run that returns True on a table holding row 24 leaves that
\* row with queue_status 'PAUSED' and an updated_at strictly greater than the
\* one it had before the run.
C1_SuccessPausesAndAdvances ==
    (Ended("updater") /\ Returned("True") /\ Row24(pre) # {}) =>
        /\ Status24(db) = {"PAUSED"}
        /\ \A a \in Updated24(pre), b \in Updated24(db) : b > a

\* C1 witness: a successful run on a row that was ACTIVE and carried the
\* latest initial timestamp.
C1_Witness ==
    /\ Ended("updater") /\ Returned("True")
    /\ Status24(pre) = {"ACTIVE"}
    /\ Updated24(pre) = {MaxInitTime}

\* C2: with no row 24, an Updater run returns False without raising, exits
\* with code 1 and leaves the table as it was.
C2_NoRowFailsWithoutRaising ==
    (Ended("updater") /\ Row24(pre) = {}) =>
        /\ ~escaped
        /\ ret = "False"
        /\ exitCode = 1
        /\ db = pre

\* The part of C2 that every run keeps: exit code 1 and an unchanged table on
\* every path, and a returned False whenever no exception leaves the function.
C2_ExceptForEscapes ==
    (Ended("updater") /\ Row24(pre) = {}) =>
        /\ exitCode = 1
        /\ db = pre
        /\ ~escaped => ret = "False"

\* C3 as stated, for the runs in which nothing raises: when the UPDATE matched
\* no row, the transaction is ended by a rollback before the connection is
\* closed.
C3_NoRowEndsByRollback ==
    (Ended("updater") /\ executed /\ rows = {} /\ raised = {}) =>
        (txn = "rolledback" /\ conn = "closed")

\* C3 amended: when the UPDATE matched no row, the table is unchanged; a run
\* that reports the missing row (line 70) has ended the transaction with
\* conn.commit(), and a rollback ends it only after a database error.
C3_NoRowEndsByCommit ==
    (script = "updater" /\ executed /\ rows = {}) =>
        /\ db = pre
        /\ (msg = "norows" => txn = "committed")
        /\ (txn = "rolledback" => ("db" \in raised /\ msg = "dberror"))
        /\ (conn = "closed" => txn # "open")

\* C3 witness: the run that reported the missing row has ended, its connection
\* closed.
C3_Witness ==
    /\ Ended("updater") /\ executed /\ rows = {}
    /\ msg = "norows" /\ Returned("False")
    /\ conn = "closed" /\ txn = "committed"

\* The Reader's three outcomes, decided by row 24.
ReaderOutcomeDecided ==
    /\ Returned("True") <=> Status24(db) = {"PAUSED"}
    /\ (Row24(db) # {} /\ Status24(db) # {"PAUSED"}) =>
           (Returned("False") /\ msg = "mismatch")
    /\ Row24(db) = {} => (Returned("False") /\ msg = "notfound")
    /\ msg \in {"verified", "mismatch", "notfound"}

\* C4 as stated, for the runs that return a value: a Reader run in which no
\* database error occurs ends in the outcome row 24 decides.
C4_ReaderOutcomeNoDbError ==
    (Ended("reader") /\ "db" \notin raised /\ ~escaped) => ReaderOutcomeDecided

\* C4 amended: a Reader run in which no exception at all is raised (no
\* database error and no failing print) ends in the outcome row 24 decides.
C4_ReaderOutcomeNoError ==
    (Ended("reader") /\ raised = {}) => ReaderOutcomeDecided

\* C4 witness: a clean Reader run on a row whose status differs from 'PAUSED'
\* only by case.
C4_Witness ==
    /\ Ended("reader") /\ raised = {}
    /\ Status24(db) = {"paused"}
    /\ msg = "mismatch" /\ Returned("False")

\* C5: when a run ends, every connection and cursor it acquired is closed, and
\* it acquired at most one of each and sent at most one statement.
C5_ResourcesReleased ==
    pc = "done" =>
        /\ conn # "open"
        /\ cursor # "open"
        /\ nConn <= 1 /\ nCursor <= 1 /\ nStmt <= 1

\* C6: no exception leaves the function; it returns a boolean, and the exit
\* code is 0 exactly when that boolean is True, 1 otherwise.
C6_ErrorsContained ==
    pc = "done" =>
        /\ ~escaped
        /\ ret \in {"True", "False"}
        /\ exitCode = (IF ret = "True" THEN 0 ELSE 1)

\* C7: of two successive Updater runs that both return True, each leaves
\* queue_status 'PAUSED', each strictly advances updated_at, and the second
\* changes nothing but updated_at.
C7_Idempotent ==
    (Ended("updater") /\ Returned("True") /\ last.script = "updater" /\ last.ok) =>
        /\ last.post = Row24(pre)
        /\ { r.queue_status : r \in last.post } = {"PAUSED"}
        /\ Status24(db) = {"PAUSED"}
        /\ \A a \in last.pre, b \in last.post : b.updated_at > a.updated_at
        /\ \A b \in Row24(pre), c \in Row24(db) : c.updated_at > b.updated_at
        /\ \E u \in Updated24(db) :
              db = { IF r.id = QueueId THEN [r EXCEPT !.updated_at = u] ELSE r : r \in pre }

\* C7 witness: the second of two successive successful Updater runs has ended,
\* the first having found the row ACTIVE.
C7_Witness ==
    /\ Ended("updater") /\ Returned("True")
    /\ last.script = "updater" /\ last.ok
    /\ { r.queue_status : r \in last.pre } = {"ACTIVE"}

\* C8 as stated, for the runs that return a value: once an Updater run has
\* returned True, every Reader run in which no database error occurs returns
\* True.
C8_ReaderAfterUpdaterNoDbError ==
    (Ended("reader") /\ everOk /\ "db" \notin raised /\ ~escaped) => ret = "True"

\* C8 amended: once an Updater run has returned True, every Reader run in
\* which no exception at all is raised returns True.
C8_ReaderAfterUpdater ==
    (Ended("reader") /\ everOk /\ raised = {}) =>
        (Returned("True") /\ msg = "verified" /\ exitCode = 0)

\* C8 witness: a clean Reader run right after a successful Updater run that
\* found the row ACTIVE.
C8_Witness ==
    /\ Ended("reader") /\ raised = {}
    /\ last.script = "updater" /\ last.ok
    /\ { r.queue_status : r \in last.pre } = {"ACTIVE"}

\* C9: every step keeps the set of row ids, every row other than row 24, and
\* row 24's id, clinic_id and created_at; a step of the Reader keeps the whole
\* table.
FrameStep ==
    /\ { r.id : r \in db' } = { r.id : r \in db }
    /\ \A r \in db : r.id # QueueId => r \in db'
    /\ \A r \in Row24(db), q \in Row24(db') :
          /\ q.clinic_id = r.clinic_id
          /\ q.created_at = r.created_at
    /\ Cardinality(db') = Cardinality(db)
    /\ script = "reader" => db' = db

C9_Frame == [][FrameStep]_vars

\* C9 witness: an Updater run has changed row 24 in a table that also holds
\* another row.
C9_Witness ==
    /\ Ended("updater")
    /\ db # pre
    /\ \E r \in db : r.id # QueueId

\* C10, for the runs that return False after no database error (the claim's
\* own case of an error raised after the commit, while printing): an Updater
\* run that ends in failure has not persisted the update.
C10_FailureNotPersisted ==
    (Ended("updater") /\ Returned("False") /\ exitCode = 1 /\ "db" \notin raised) =>
        Row24(db) = Row24(pre)
====
